---- MODULE Spec2Model ----
\* EdDSA over a twisted Edwards curve (crypto/signature/eddsa/bn256/eddsa.go):
\* key derivation, signing, verification and the fixed-width encodings.
\* The curve and the hash functions are the package's collaborators; they are
\* modelled at a reduced size (a 37-element field, a subgroup of order 5,
\* cofactor 8) with the same algebraic structure as the bn256 twisted Edwards
\* curve: a = -1 a square, d a non-square, Base of prime order, cofactor 8.
EXTENDS Integers, Sequences, FiniteSets, TLC

VARIABLES pub, priv, sig, hFunc,
          unMarshalPubKey, unMarshalPrivKey, unMarshalSignature,
          keyValid, signed, last

vars == <<pub, priv, sig, hFunc, unMarshalPubKey, unMarshalPrivKey,
          unMarshalSignature, keyValid, signed, last>>

\* ---------------------------------------------------------------- bounds
NumSeeds == 2
NumMessages == 2
MaxWrites == 1
MaxSlack == 1

\* ------------------------------------------------------------- constants
frSize == 32
sizePublicKey == 2 * frSize
sizeSignature == 3 * frSize
sizePrivateKey == 4 * frSize

nil == "nil"
ErrShortBuffer == "io.ErrShortBuffer"
errNotOnCurve == "point not on curve"
errHashWrite == "hash write error"

\* ------------------------------------------------------ byte sequences
Zeros(n) == SubSeq([i \in 1..n |-> 0], 1, n)

\* buf[lo:hi] of Go, 0-based, hi exclusive
Slice(buf, lo, hi) == SubSeq(buf, lo + 1, hi)

\* copy(dst[off:], src): copies min(len(dst)-off, len(src)) bytes
Copy(dst, off, src) ==
  LET k == IF Len(src) < Len(dst) - off THEN Len(src) ELSE Len(dst) - off
  IN SubSeq(dst, 1, off) \o SubSeq(src, 1, k) \o SubSeq(dst, off + k + 1, Len(dst))

\* ------------------------------------------------- twistededwards (curve)
\* twistededwards.GetEdwardsCurve(): a*x^2 + y^2 = 1 + d*x^2*y^2 over F_p
curveParams ==
  [p |-> 37, A |-> 36, D |-> 2, Order |-> 5, Cofactor |-> 8,
   Base |-> [X |-> 8, Y |-> 10]]

FrMod(x) == x % curveParams.p

\* fr.Element.Inverse: the inverse, 0 for 0
FrInvTable ==
  SubSeq([x \in 1..(curveParams.p - 1) |->
            CHOOSE y \in 1..(curveParams.p - 1) : (x * y) % curveParams.p = 1],
         1, curveParams.p - 1)

FrInv(x) == IF x = 0 THEN 0 ELSE FrInvTable[x]

\* 256^k modulo m
RECURSIVE Pow256(_, _)
Pow256(k, m) == IF k = 0 THEN 1 % m ELSE (Pow256(k - 1, m) * 256) % m

\* the big-endian unsigned integer s[lo..hi], modulo m
RECURSIVE BigRange(_, _, _, _)
BigRange(s, lo, hi, m) ==
  IF lo > hi THEN 0
  ELSE IF lo = hi THEN s[lo] % m
  ELSE LET mid == (lo + hi) \div 2
       IN (BigRange(s, lo, mid, m) * Pow256(hi - mid, m)
           + BigRange(s, mid + 1, hi, m)) % m

\* big.Int.SetBytes(s) modulo m
BigMod(s, m) == BigRange(s, 1, Len(s), m)

\* fr.Element.SetBytes: the big-endian integer, reduced into the field
FrSetBytes(buf) == BigMod(buf, curveParams.p)

\* fr.Element.Bytes: the canonical value on frSize bytes, big endian
FrBytes(x) == Zeros(frSize - 1) \o <<x>>

PointZero == [X |-> 0, Y |-> 0]
Identity == [X |-> 0, Y |-> 1]

\* PointAffine.IsOnCurve
IsOnCurve(P) ==
  FrMod(curveParams.A * P.X * P.X + P.Y * P.Y)
    = FrMod(1 + curveParams.D * FrMod(P.X * P.X) * FrMod(P.Y * P.Y))

\* PointAffine.Add: the unified twisted Edwards addition
Add(P, Q) ==
  LET xx == FrMod(P.X * Q.X)
      yy == FrMod(P.Y * Q.Y)
      t == FrMod(curveParams.D * xx * yy)
      nx == FrMod(P.X * Q.Y + P.Y * Q.X)
      ny == FrMod(yy + (curveParams.p - curveParams.A) * xx)
  IN [X |-> FrMod(nx * FrInv(FrMod(1 + t))),
      Y |-> FrMod(ny * FrInv(FrMod(1 + curveParams.p - t)))]

IsPoint(P) == P.X \in 0..(curveParams.p - 1) /\ P.Y \in 0..(curveParams.p - 1)

\* The double-and-add loop over the bits hi..lo of the byte b, most
\* significant first: for each bit, double, then add P if the bit is set.
\* The steps run in the loop's order; the range is split in two only to keep
\* the evaluation shallow, the first half being evaluated before the second.
RECURSIVE MulBits(_, _, _, _, _)
MulBits(acc, P, b, hi, lo) ==
  IF hi = lo
  THEN LET dbl == Add(acc, acc)
       IN IF (b \div (2 ^ lo)) % 2 = 1 THEN Add(dbl, P) ELSE dbl
  ELSE LET mid == (hi + lo + 1) \div 2
           upper == MulBits(acc, P, b, hi, mid)
       IN IF IsPoint(upper) THEN MulBits(upper, P, b, mid - 1, lo) ELSE upper

\* The points Base generates, Base first, found by adding Base until the
\* identity comes back.
RECURSIVE Multiples(_, _)
Multiples(P, seq) ==
  LET nxt == Add(seq[Len(seq)], P)
  IN IF seq[Len(seq)] = Identity \/ Len(seq) >= curveParams.p * curveParams.p
     THEN seq
     ELSE Multiples(P, Append(seq, nxt))

BasePoints == Multiples(curveParams.Base, <<curveParams.Base>>)

\* the position of a point in BasePoints, 0 for any other point
BaseIndex(P) ==
  IF \E k \in 1..Len(BasePoints) : BasePoints[k] = P
  THEN CHOOSE k \in 1..Len(BasePoints) : BasePoints[k] = P
  ELSE 0

\* The eight steps of one byte, computed once by MulBits for the points that
\* Base generates and kept: MulByteTable[i][j][b + 1] is
\* MulBits(BasePoints[i], BasePoints[j], b, 7, 0).
MulByteTable ==
  SubSeq([i \in 1..Len(BasePoints) |->
    SubSeq([j \in 1..Len(BasePoints) |->
      SubSeq([b \in 1..256 |-> MulBits(BasePoints[i], BasePoints[j], b - 1, 7, 0)],
             1, 256)],
      1, Len(BasePoints))],
    1, Len(BasePoints))

MulByteAt(i, j, acc, P, b) ==
  IF i > 0 /\ j > 0 THEN MulByteTable[i][j][b + 1] ELSE MulBits(acc, P, b, 7, 0)

MulByte(acc, P, b) == MulByteAt(BaseIndex(acc), BaseIndex(P), acc, P, b)

\* the same loop over the bytes s[lo..hi] of the scalar
RECURSIVE MulRange(_, _, _, _, _)
MulRange(acc, P, s, lo, hi) ==
  IF lo = hi THEN MulByte(acc, P, s[lo])
  ELSE LET mid == (lo + hi) \div 2
           left == MulRange(acc, P, s, lo, mid)
       IN IF IsPoint(left) THEN MulRange(left, P, s, mid + 1, hi) ELSE left

\* big.Int.SetBytes drops the leading zero bytes: the index of the first
\* non-zero byte of s[lo..hi], hi + 1 if there is none
RECURSIVE FirstNonZero(_, _, _)
FirstNonZero(s, lo, hi) ==
  IF lo > hi THEN lo
  ELSE IF lo = hi THEN (IF s[lo] # 0 THEN lo ELSE hi + 1)
  ELSE LET mid == (lo + hi) \div 2
           l == FirstNonZero(s, lo, mid)
       IN IF l <= mid THEN l ELSE FirstNonZero(s, mid + 1, hi)

\* PointAffine.ScalarMul(P, big.Int.SetBytes(s)): double-and-add over the
\* bits of the big-endian integer s, most significant first
ScalarMul(P, s) ==
  LET first == FirstNonZero(s, 1, Len(s))
  IN IF ~IsPoint(P) THEN P
     ELSE IF first > Len(s) THEN Identity
     ELSE MulRange(Identity, P, s, first, Len(s))

\* big.Int.Bytes: the minimal big-endian encoding of v
RECURSIVE BigBytes(_)
BigBytes(v) == IF v = 0 THEN <<>> ELSE BigBytes(v \div 256) \o <<v % 256>>

\* ------------------------------------------------------- blake2b.Sum512
\* The fixed 64-byte seed-expansion hash, as a deterministic mixing function.
\* the position-weighted sum of data[lo..hi], written at offset off
RECURSIVE Weigh(_, _, _, _, _)
Weigh(data, lo, hi, off, mult) ==
  IF lo > hi THEN 0
  ELSE IF lo = hi THEN (((off + lo) * mult + 1) * (data[lo] + 1)) % 65521
  ELSE LET mid == (lo + hi) \div 2
       IN (Weigh(data, lo, mid, off, mult) + Weigh(data, mid + 1, hi, off, mult)) % 65521

Absorb(acc, data, off, mult) == (acc + Weigh(data, 1, Len(data), off, mult)) % 65521

Squeeze(acc, n, k) ==
  SubSeq([i \in 1..n |->
            ((((acc + 1) * (((i * 37 + k * 101) % 32749) + 1)) % 65521) \div 7) % 256],
         1, n)

Sum512(data) == Squeeze(Absorb(17, data, 0, 31), 64, 1)

\* ---------------------------------------------------------- hash.Hash
\* The caller's hash instance: its kind, the running state of the bytes
\* written since the last Reset, their number, and how many Write calls
\* that was.
\* Two hashes whose Write succeeds (the tests pass sha256 and MiMC) and one
\* whose Write fails.
HashKinds == {"h1", "h2", "failing"}

HashMult(kind) == IF kind = "h2" THEN 27 ELSE 33

HashIV(kind) == IF kind = "h2" THEN 11 ELSE 3

HashNew(kind) == [kind |-> kind, acc |-> HashIV(kind), len |-> 0, writes |-> 0]

\* Reset leaving the state as it is
HashResetKeepsState(h) == h

\* hFunc.Reset()
HashReset(h) == HashNew(h.kind)

HashWrite(h, data) ==
  IF h.kind = "failing"
  THEN [h |-> h, err |-> errHashWrite]
  ELSE [h |-> [h EXCEPT !.acc = Absorb(h.acc, data, h.len, HashMult(h.kind)),
                        !.len = h.len + Len(data),
                        !.writes = h.writes + 1],
        err |-> nil]

HashSum(h) == Squeeze(h.acc, frSize, HashIV(h.kind))

\* ------------------------------------------------------------ PublicKey
PublicKeyZero == [A |-> PointZero]

PublicKeySetBytes(pk, buf) ==
  IF Len(buf) < sizePublicKey
  THEN [v |-> pk, n |-> 0, err |-> ErrShortBuffer]
  ELSE LET A == [X |-> FrSetBytes(Slice(buf, 0, frSize)),
                 Y |-> FrSetBytes(Slice(buf, frSize, 2 * frSize))]
           set == [pk EXCEPT !.A = A]
       IN IF ~IsOnCurve(A)
          THEN [v |-> set, n |-> 2 * frSize, err |-> errNotOnCurve]
          ELSE [v |-> set, n |-> 2 * frSize, err |-> nil]

PublicKeyBytes(pk) ==
  Copy(Copy(Zeros(sizePublicKey), 0, FrBytes(pk.A.X)), frSize, FrBytes(pk.A.Y))

\* ------------------------------------------------------------ Signature
SignatureZero == [R |-> PointZero, S |-> Zeros(frSize)]

SignatureSetBytes(sg, buf) ==
  IF Len(buf) < sizeSignature
  THEN [v |-> sg, n |-> 0, err |-> ErrShortBuffer]
  ELSE LET R == [X |-> FrSetBytes(Slice(buf, 0, frSize)),
                 Y |-> FrSetBytes(Slice(buf, frSize, 2 * frSize))]
           set == [sg EXCEPT !.R = R]
       IN IF ~IsOnCurve(R)
          THEN [v |-> set, n |-> 2 * frSize, err |-> errNotOnCurve]
          ELSE [v |-> [set EXCEPT !.S = Copy(sg.S, 0, Slice(buf, 2 * frSize, 3 * frSize))],
                n |-> 2 * frSize + frSize, err |-> nil]

SignatureBytes(sg) ==
  Copy(Copy(Copy(Zeros(sizeSignature), 0, FrBytes(sg.R.X)),
            frSize, FrBytes(sg.R.Y)),
       2 * frSize, sg.S)

\* ----------------------------------------------------------- PrivateKey
PrivateKeyZero ==
  [pubKey |-> PublicKeyZero, scalar |-> Zeros(frSize), randSrc |-> Zeros(32)]

\* PrivateKey.SetBytes checking the buffer against the signature's size
PrivateKeySetBytesShortCheck(pk, buf) ==
  IF Len(buf) < sizeSignature
  THEN [v |-> pk, n |-> 0, err |-> ErrShortBuffer]
  ELSE LET A == [X |-> FrSetBytes(Slice(buf, 0, frSize)),
                 Y |-> FrSetBytes(Slice(buf, frSize, 2 * frSize))]
           set == [pk EXCEPT !.pubKey.A = A]
       IN IF ~IsOnCurve(A)
          THEN [v |-> set, n |-> 2 * frSize, err |-> errNotOnCurve]
          ELSE [v |-> [set EXCEPT
                         !.scalar = Copy(pk.scalar, 0, Slice(buf, 2 * frSize, 3 * frSize)),
                         !.randSrc = Copy(pk.randSrc, 0, Slice(buf, 3 * frSize, Len(buf)))],
                n |-> 2 * frSize + frSize, err |-> nil]

\* buf is publicKey||scalar||randSrc
PrivateKeySetBytes(pk, buf) ==
  IF Len(buf) < sizePrivateKey
  THEN [v |-> pk, n |-> 0, err |-> ErrShortBuffer]
  ELSE LET A == [X |-> FrSetBytes(Slice(buf, 0, frSize)),
                 Y |-> FrSetBytes(Slice(buf, frSize, 2 * frSize))]
           set == [pk EXCEPT !.pubKey.A = A]
       IN IF ~IsOnCurve(A)
          THEN [v |-> set, n |-> 2 * frSize, err |-> errNotOnCurve]
          ELSE [v |-> [set EXCEPT
                         !.scalar = Copy(pk.scalar, 0, Slice(buf, 2 * frSize, 3 * frSize)),
                         !.randSrc = Copy(pk.randSrc, 0, Slice(buf, 3 * frSize, Len(buf)))],
                n |-> 2 * frSize + frSize, err |-> nil]

\* PrivateKey.Bytes leaving randSrc out
PrivateKeyBytesWithoutRandSrc(pk) ==
  Copy(Copy(Copy(Zeros(sizePrivateKey), 0, FrBytes(pk.pubKey.A.X)),
            frSize, FrBytes(pk.pubKey.A.Y)),
       2 * frSize, pk.scalar)

\* publicKey||scalar||randSrc
PrivateKeyBytes(pk) ==
  Copy(Copy(Copy(Copy(Zeros(sizePrivateKey), 0, FrBytes(pk.pubKey.A.X)),
                 frSize, FrBytes(pk.pubKey.A.Y)),
            2 * frSize, pk.scalar),
       3 * frSize, pk.randSrc)

\* ------------------------------------------------------------------ New
\* h[0] &= 0xF8; h[31] &= 0x7F; h[31] |= 0x40   (h is 1-based here)
Prune(h) ==
  [h EXCEPT ![1] = h[1] - (h[1] % 8),
            ![32] = (h[32] % 64) + 64]

\* for i, j := 0, 32; i < j; i, j = i+1, j-1 { h[i], h[j] = h[j], h[i] }
\* n iterations of the loop from (i, j), each under the loop's condition;
\* the first half of them is evaluated before the second.
RECURSIVE SwapSteps(_, _, _, _)
SwapSteps(h, i, j, n) ==
  IF n = 1
  THEN (IF i < j THEN [h EXCEPT ![i + 1] = h[j + 1], ![j + 1] = h[i + 1]] ELSE h)
  ELSE LET m == n \div 2
           first == SwapSteps(h, i, j, m)
       IN IF Len(first) = Len(h) THEN SwapSteps(first, i + m, j - m, n - m) ELSE first

\* the whole loop: it ends within len(h) iterations
SwapLoop(h, i, j) == SwapSteps(h, i, j, Len(h))

New(seed) ==
  LET h == Sum512(seed)
      randSrc == SubSeq(h, 33, 64)
      rev == SwapLoop(Prune(h), 0, 32)
      scalar == Slice(rev, 0, 32)
      A == ScalarMul(curveParams.Base, scalar)
      pk == [A |-> A]
  IN [pub |-> pk,
      priv |-> [pubKey |-> pk, scalar |-> scalar, randSrc |-> randSrc]]

\* -------------------------------------------------------- Sign / Verify
\* R.X || R.Y || A.X || A.Y || message
dataToHash(R, A, message) ==
  FrBytes(R.X) \o FrBytes(R.Y) \o FrBytes(A.X) \o FrBytes(A.Y) \o message

\* Sign leaving the random scalar out of S
SignWithoutRand(message, pk, h) ==
  LET randSrc == pk.randSrc \o message
      randBytes == Sum512(randSrc)
      randScalar == Slice(randBytes, 0, 32)
      R == ScalarMul(curveParams.Base, randScalar)
      w == HashWrite(HashReset(h), dataToHash(R, pk.pubKey.A, message))
      hramBin == HashSum(w.h)
      bs == (BigMod(hramBin, curveParams.Order) * BigMod(pk.scalar, curveParams.Order)) % curveParams.Order
      sb == BigBytes(bs)
      padded == IF Len(sb) < frSize THEN Zeros(frSize - Len(sb)) \o sb ELSE sb
  IN IF ~IsOnCurve(R)
     THEN [sig |-> SignatureZero, err |-> errNotOnCurve, h |-> h]
     ELSE IF w.err # nil
     THEN [sig |-> SignatureZero, err |-> w.err, h |-> w.h]
     ELSE [sig |-> [R |-> R, S |-> Copy(Zeros(frSize), 0, padded)],
           err |-> nil, h |-> w.h]

\* s = randScalar + H(R,A,M)*scalar mod Order, in frSize big-endian bytes
Sign(message, pk, h) ==
  LET randSrc == pk.randSrc \o message
      randBytes == Sum512(randSrc)
      randScalar == Slice(randBytes, 0, 32)
      R == ScalarMul(curveParams.Base, randScalar)
      w == HashWrite(HashReset(h), dataToHash(R, pk.pubKey.A, message))
      hramBin == HashSum(w.h)
      bs == (BigMod(hramBin, curveParams.Order) * BigMod(pk.scalar, curveParams.Order)
             + BigMod(randScalar, curveParams.Order)) % curveParams.Order
      sb == BigBytes(bs)
      padded == IF Len(sb) < frSize THEN Zeros(frSize - Len(sb)) \o sb ELSE sb
  IN IF ~IsOnCurve(R)
     THEN [sig |-> SignatureZero, err |-> errNotOnCurve, h |-> h]
     ELSE IF w.err # nil
     THEN [sig |-> SignatureZero, err |-> w.err, h |-> w.h]
     ELSE [sig |-> [R |-> R, S |-> Copy(Zeros(frSize), 0, padded)],
           err |-> nil, h |-> w.h]

\* hramInt: H(R, A, M) as an integer, here kept modulo m
hramInt(R, A, message, h, m) ==
  BigMod(HashSum(HashWrite(HashReset(h), dataToHash(R, A, message)).h), m)

\* lhs = cofactor*S*Base
VerifyLhs(sg) ==
  ScalarMul(ScalarMul(curveParams.Base, sg.S), BigBytes(curveParams.Cofactor))

\* rhs = cofactor*(R + H(R,A,M)*A)
VerifyRhs(sg, message, pk, h) ==
  LET hramBin == HashSum(HashWrite(HashReset(h), dataToHash(sg.R, pk.A, message)).h)
  IN ScalarMul(Add(ScalarMul(pk.A, hramBin), sg.R), BigBytes(curveParams.Cofactor))

\* Verify without the message in the hashed data
VerifyIgnoresMessage(sg, message, pk, h) ==
  LET w == HashWrite(HashReset(h), dataToHash(sg.R, pk.A, <<>>))
      lhs == VerifyLhs(sg)
      rhs == VerifyRhs(sg, <<>>, pk, h)
  IN IF ~IsOnCurve(pk.A)
     THEN [ok |-> FALSE, err |-> errNotOnCurve, h |-> h]
     ELSE IF w.err # nil
     THEN [ok |-> FALSE, err |-> w.err, h |-> w.h]
     ELSE IF ~IsOnCurve(lhs) \/ ~IsOnCurve(rhs)
     THEN [ok |-> FALSE, err |-> errNotOnCurve, h |-> w.h]
     ELSE [ok |-> lhs = rhs, err |-> nil, h |-> w.h]

\* Verify reporting a mismatch of the two sides as an error
VerifyMismatchIsError(sg, message, pk, h) ==
  LET w == HashWrite(HashReset(h), dataToHash(sg.R, pk.A, message))
      lhs == VerifyLhs(sg)
      rhs == VerifyRhs(sg, message, pk, h)
  IN IF ~IsOnCurve(pk.A)
     THEN [ok |-> FALSE, err |-> errNotOnCurve, h |-> h]
     ELSE IF w.err # nil
     THEN [ok |-> FALSE, err |-> w.err, h |-> w.h]
     ELSE IF ~IsOnCurve(lhs) \/ ~IsOnCurve(rhs) \/ lhs # rhs
     THEN [ok |-> FALSE, err |-> errNotOnCurve, h |-> w.h]
     ELSE [ok |-> TRUE, err |-> nil, h |-> w.h]

\* Verify rejecting every S that is not below the group order
VerifyChecksRange(sg, message, pk, h) ==
  LET w == HashWrite(HashReset(h), dataToHash(sg.R, pk.A, message))
      lhs == VerifyLhs(sg)
      rhs == VerifyRhs(sg, message, pk, h)
      small == /\ \A i \in 1..(frSize - 1) : sg.S[i] = 0
               /\ sg.S[frSize] < curveParams.Order
  IN IF ~IsOnCurve(pk.A)
     THEN [ok |-> FALSE, err |-> errNotOnCurve, h |-> h]
     ELSE IF w.err # nil
     THEN [ok |-> FALSE, err |-> w.err, h |-> w.h]
     ELSE IF ~IsOnCurve(lhs) \/ ~IsOnCurve(rhs)
     THEN [ok |-> FALSE, err |-> errNotOnCurve, h |-> w.h]
     ELSE [ok |-> small /\ lhs = rhs, err |-> nil, h |-> w.h]

Verify(sg, message, pk, h) ==
  LET w == HashWrite(HashReset(h), dataToHash(sg.R, pk.A, message))
      lhs == VerifyLhs(sg)
      rhs == VerifyRhs(sg, message, pk, h)
  IN IF ~IsOnCurve(pk.A)
     THEN [ok |-> FALSE, err |-> errNotOnCurve, h |-> h]
     ELSE IF w.err # nil
     THEN [ok |-> FALSE, err |-> w.err, h |-> w.h]
     ELSE IF ~IsOnCurve(lhs)
     THEN [ok |-> FALSE, err |-> errNotOnCurve, h |-> w.h]
     ELSE IF ~IsOnCurve(rhs)
     THEN [ok |-> FALSE, err |-> errNotOnCurve, h |-> w.h]
     ELSE IF lhs.X # rhs.X \/ lhs.Y # rhs.Y
     THEN [ok |-> FALSE, err |-> nil, h |-> w.h]
     ELSE [ok |-> TRUE, err |-> nil, h |-> w.h]

\* --------------------------------------------------------------- inputs
\* "eddsa" zero-padded (the tests' seed), then seeds told apart by a byte
SeedOf(k) ==
  IF k = 1
  THEN Copy(Zeros(32), 0, <<101, 100, 100, 115, 97>>)
  ELSE <<k>> \o Zeros(31)

Seeds == {SeedOf(k) : k \in 1..NumSeeds}

\* "message", "wrong_message" (the tests' messages), then one-byte messages
MessageOf(k) ==
  IF k = 1 THEN <<109, 101, 115, 115, 97, 103, 101>>
  ELSE IF k = 2
  THEN <<119, 114, 111, 110, 103, 95, 109, 101, 115, 115, 97, 103, 101>>
  ELSE <<k>>

Messages == {MessageOf(k) : k \in 1..NumMessages}

\* -------------------------------------------------------- state machine
None == "none"

\* what Sign signed with the key pair New made, while sig still holds it
NotSigned == [valid |-> FALSE, msg |-> <<>>, kind |-> None]

\* the last call: its argument, its results, the receiver before it, and
\* whether the hash instance it was given had been written to
NoLast ==
  [op |-> "none", arg |-> <<>>, ok |-> FALSE, err |-> nil, n |-> 0,
   before |-> None, dirty |-> FALSE]

\* The zero values of the structures and a fresh hash instance.
Init ==
  /\ pub = PublicKeyZero
  /\ priv = PrivateKeyZero
  /\ sig = SignatureZero
  /\ hFunc = HashNew("h1")
  /\ unMarshalPubKey = PublicKeyZero
  /\ unMarshalPrivKey = PrivateKeyZero
  /\ unMarshalSignature = SignatureZero
  /\ keyValid = FALSE
  /\ signed = NotSigned
  /\ last = NoLast

receivers == <<unMarshalPubKey, unMarshalPrivKey, unMarshalSignature>>

\* the caller takes a new hash instance, before it makes its keys
UseHash(kind) ==
  /\ priv = PrivateKeyZero
  /\ hFunc # HashNew(kind)
  /\ hFunc' = HashNew(kind)
  /\ last' = [NoLast EXCEPT !.op = "UseHash"]
  /\ UNCHANGED <<pub, priv, sig, keyValid, signed, receivers>>

\* pubKey, privKey := New(seed)
NewKeyReturns(k, seed) ==
  /\ pub' = k.pub
  /\ priv' = k.priv
  /\ keyValid' = TRUE
  /\ last' = [NoLast EXCEPT !.op = "New", !.arg = seed]
  /\ UNCHANGED <<sig, hFunc, signed, receivers>>

NewKey(seed) ==
  /\ priv = PrivateKeyZero
  /\ NewKeyReturns(New(seed), seed)

\* the caller writes to the hash instance itself, before it signs
DirectWrite(data) ==
  /\ priv # PrivateKeyZero
  /\ sig = SignatureZero
  /\ hFunc.writes < MaxWrites
  /\ hFunc' = HashWrite(hFunc, data).h
  /\ last' = [NoLast EXCEPT !.op = "Write", !.arg = data,
                            !.err = HashWrite(hFunc, data).err]
  /\ UNCHANGED <<pub, priv, sig, keyValid, signed, receivers>>

\* signature, err := Sign(message, privKey, hFunc)
SignReturns(r, message) ==
  /\ sig' = r.sig
  /\ hFunc' = r.h
  /\ signed' = IF r.err = nil
               THEN [valid |-> TRUE, msg |-> message, kind |-> hFunc.kind]
               ELSE NotSigned
  /\ last' = [NoLast EXCEPT !.op = "Sign", !.arg = message, !.err = r.err,
                            !.dirty = (hFunc # HashReset(hFunc))]
  /\ UNCHANGED <<pub, priv, keyValid, receivers>>

DoSign(message) ==
  /\ priv # PrivateKeyZero
  /\ sig = SignatureZero
  /\ SignReturns(Sign(message, priv, hFunc), message)

\* res, err := Verify(signature, message, pubKey, hFunc)
VerifyReturns(r, message) ==
  /\ hFunc' = r.h
  /\ last' = [NoLast EXCEPT !.op = "Verify", !.arg = message, !.ok = r.ok,
                            !.err = r.err,
                            !.dirty = (hFunc # HashReset(hFunc))]
  /\ UNCHANGED <<pub, priv, sig, keyValid, signed, receivers>>

DoVerify(message) ==
  /\ priv # PrivateKeyZero
  /\ VerifyReturns(Verify(sig, message, pub, hFunc), message)

\* A point off the curve, and the byte strings a caller may hand to
\* SetBytes in place of an encoding it was given.
OffCurve == [X |-> 1, Y |-> 1]

\* S + v * 256^(frSize - i), for a byte i that can take it
AddAt(S, i, v) == [S EXCEPT ![i] = S[i] + v]

SVariants(S) ==
  {AddAt(S, frSize, 1),
   AddAt(S, frSize, curveParams.Order),
   AddAt(S, 1, curveParams.Order)}

SigBuffers(sg) ==
  {SignatureBytes([sg EXCEPT !.S = S]) : S \in SVariants(sg.S)}
    \cup {SignatureBytes([sg EXCEPT !.R = OffCurve]),
          SignatureBytes([sg EXCEPT !.R = Add(sg.R, curveParams.Base)])}

PubBuffers(pk) ==
  {PublicKeyBytes([A |-> OffCurve]),
   PublicKeyBytes([A |-> Add(pk.A, curveParams.Base)])}

\* signature.SetBytes(buf), on the signature that Sign made
SigSetBytes(buf) ==
  /\ signed.valid
  /\ LET r == SignatureSetBytes(sig, buf)
     IN /\ sig' = r.v
        /\ last' = [NoLast EXCEPT !.op = "Signature.SetBytes", !.arg = buf,
                                  !.n = r.n, !.err = r.err, !.before = sig]
  /\ signed' = NotSigned
  /\ UNCHANGED <<pub, priv, hFunc, keyValid, receivers>>

\* pubKey.SetBytes(buf), on the public key that New made
PubSetBytes(buf) ==
  /\ keyValid
  /\ LET r == PublicKeySetBytes(pub, buf)
     IN /\ pub' = r.v
        /\ last' = [NoLast EXCEPT !.op = "PublicKey.SetBytes", !.arg = buf,
                                  !.n = r.n, !.err = r.err, !.before = pub]
  /\ keyValid' = FALSE
  /\ UNCHANGED <<priv, sig, hFunc, signed, receivers>>

Next ==
  \/ \E kind \in HashKinds : UseHash(kind)
  \/ \E seed \in Seeds : NewKey(seed)
  \/ \E data \in Messages : DirectWrite(data)
  \/ \E message \in Messages : DoSign(message)
  \/ \E message \in Messages : DoVerify(message)
  \/ \E buf \in SigBuffers(sig) : SigSetBytes(buf)
  \/ \E buf \in PubBuffers(pub) : PubSetBytes(buf)

Spec == Init /\ [][Next]_vars

\* ---------------------------------------------------- decoding harness
\* Buffer lengths below size, within MaxSlack of a multiple of frSize: the
\* empty buffer, the field boundaries and the lengths around them.
ShortLens(size) ==
  {n \in 0..(size - 1) :
     \E k \in 0..(size \div frSize), d \in 0..MaxSlack :
       n = k * frSize + d \/ n = k * frSize - d}

\* What a caller may hand to SetBytes: the encoding, the encoding of the same
\* value with a point off the curve, the encoding followed by more bytes,
\* and the truncations of the first two.
DecodeInputs(valid, bad, size) ==
  {valid, bad, valid \o <<1>>}
    \cup {SubSeq(b, 1, n) : b \in {valid, bad}, n \in ShortLens(size)}

\* pubKey, privKey := New(seed)
MadeKeys(k) == pub = k.pub /\ priv = k.priv /\ keyValid = TRUE

\* signature, _ := Sign(message, privKey, hFunc)
MadeSignature(r, message) ==
  /\ sig = r.sig
  /\ hFunc = r.h
  /\ signed = [valid |-> TRUE, msg |-> message, kind |-> "h1"]

\* the receivers holding the key pair k and its signature of message
HeldKeys(k, message) ==
  /\ unMarshalPubKey = k.pub
  /\ unMarshalPrivKey = k.priv
  /\ unMarshalSignature = Sign(message, k.priv, HashNew("h1")).sig

\* The receivers as declared (zero values) when held = 0, and otherwise
\* holding the key pair of the seed numbered held and its signature.
Held(held, message) ==
  IF held = 0
  THEN /\ unMarshalPubKey = PublicKeyZero
       /\ unMarshalPrivKey = PrivateKeyZero
       /\ unMarshalSignature = SignatureZero
  ELSE HeldKeys(New(SeedOf(held)), message)

InitCodec ==
  \E seed \in Seeds, message \in Messages, held \in 0..NumSeeds :
    /\ MadeKeys(New(seed))
    /\ MadeSignature(Sign(message, priv, HashNew("h1")), message)
    /\ Held(held, message)
    /\ last = NoLast

\* unMarshalPubKey.SetBytes(buf)
PubUnmarshal(buf) ==
  /\ last.op = "none"
  /\ LET r == PublicKeySetBytes(unMarshalPubKey, buf)
     IN /\ unMarshalPubKey' = r.v
        /\ last' = [NoLast EXCEPT !.op = "PublicKey.SetBytes", !.arg = buf,
                                  !.n = r.n, !.err = r.err,
                                  !.before = unMarshalPubKey]
  /\ UNCHANGED <<pub, priv, sig, hFunc, keyValid, signed,
                 unMarshalPrivKey, unMarshalSignature>>

\* unMarshalPrivKey.SetBytes(buf)
PrivUnmarshal(buf) ==
  /\ last.op = "none"
  /\ LET r == PrivateKeySetBytes(unMarshalPrivKey, buf)
     IN /\ unMarshalPrivKey' = r.v
        /\ last' = [NoLast EXCEPT !.op = "PrivateKey.SetBytes", !.arg = buf,
                                  !.n = r.n, !.err = r.err,
                                  !.before = unMarshalPrivKey]
  /\ UNCHANGED <<pub, priv, sig, hFunc, keyValid, signed,
                 unMarshalPubKey, unMarshalSignature>>

\* unMarshalSignature.SetBytes(buf)
SigUnmarshal(buf) ==
  /\ last.op = "none"
  /\ LET r == SignatureSetBytes(unMarshalSignature, buf)
     IN /\ unMarshalSignature' = r.v
        /\ last' = [NoLast EXCEPT !.op = "Signature.SetBytes", !.arg = buf,
                                  !.n = r.n, !.err = r.err,
                                  !.before = unMarshalSignature]
  /\ UNCHANGED <<pub, priv, sig, hFunc, keyValid, signed,
                 unMarshalPubKey, unMarshalPrivKey>>

NextCodec ==
  \/ \E buf \in DecodeInputs(PublicKeyBytes(pub),
                             PublicKeyBytes([A |-> OffCurve]),
                             sizePublicKey) : PubUnmarshal(buf)
  \/ \E buf \in DecodeInputs(PrivateKeyBytes(priv),
                             PrivateKeyBytes([priv EXCEPT !.pubKey.A = OffCurve]),
                             sizePrivateKey) : PrivUnmarshal(buf)
  \/ \E buf \in DecodeInputs(SignatureBytes(sig),
                             SignatureBytes([sig EXCEPT !.R = OffCurve]),
                             sizeSignature) : SigUnmarshal(buf)

SpecCodec == InitCodec /\ [][NextCodec]_vars

\* ---------------------------------------------------------------- claims
\* the state after Verify of the signature Sign made, under the key New made
VerifiedSigned ==
  last.op = "Verify" /\ signed.valid /\ keyValid /\ hFunc.kind = signed.kind

\* S as Sign writes it: a value below the group order
BelowOrder(S) ==
  /\ \A i \in 1..(frSize - 1) : S[i] = 0
  /\ S[frSize] < curveParams.Order

\* C1: a signature that Sign made with the private key of New(seed) verifies
\* for the signed message under the public key of New(seed) and the same
\* hash: Verify returns (true, nil).
SignVerifyCorrect ==
  (VerifiedSigned /\ last.arg = signed.msg) => (last.ok /\ last.err = nil)

SignVerifyReached ==
  /\ VerifiedSigned
  /\ last.arg = signed.msg
  /\ last.ok
  /\ pub.A # Identity
  /\ sig.R # Identity

\* C2 as stated: Verify of a signature of m1 for a message m2 # m1 returns
\* (false, nil).
WrongMessageRejected ==
  (VerifiedSigned /\ last.arg # signed.msg) => (~last.ok /\ last.err = nil)

\* C2 amended: Verify of a signature of m1 for a message m2 # m1 returns no
\* error, and it returns true exactly when the public key is the identity
\* or the two messages' hashes H(R,A,m1) and H(R,A,m2) agree modulo the
\* group order.
WrongMessageRejectedUnlessSameChallenge ==
  (VerifiedSigned /\ last.arg # signed.msg) =>
    /\ last.err = nil
    /\ last.ok <=>
         \/ pub.A = Identity
         \/ hramInt(sig.R, pub.A, last.arg, hFunc, curveParams.Order)
              = hramInt(sig.R, pub.A, signed.msg, hFunc, curveParams.Order)

WrongMessageReached ==
  /\ VerifiedSigned
  /\ last.arg # signed.msg
  /\ ~last.ok
  /\ last.err = nil

\* C4: the scalar New stores is the byte reversal of the pruned first 32
\* bytes of the seed's digest: scalar[i] = p[31-i], so it depends on no
\* digest byte of index 32 or more and its first byte has the top bit clear
\* and the next bit set, its last byte the low 3 bits clear.
ScalarIsReversedPrunedDigest ==
  last.op = "New" =>
    LET p == Prune(Sum512(last.arg))
    IN /\ \A i \in 0..31 : priv.scalar[i + 1] = p[(31 - i) + 1]
       /\ priv.scalar[1] \div 64 = 1
       /\ priv.scalar[32] % 8 = 0

HashStateIgnored ==
  /\ last.op = "Sign" =>
       LET fresh == Sign(last.arg, priv, HashNew(hFunc.kind))
       IN sig = fresh.sig /\ last.err = fresh.err
  /\ last.op = "Verify" =>
       LET fresh == Verify(sig, last.arg, pub, HashNew(hFunc.kind))
       IN last.ok = fresh.ok /\ last.err = fresh.err

HashStateIgnoredReached ==
  /\ last.op = "Sign"
  /\ last.dirty
  /\ signed.valid
  /\ pub.A # Identity

\* C10: Verify does not check the range of S and depends on S only modulo
\* the group order: when it accepts (R, S) it accepts (R, S') for every S'
\* congruent to S modulo the order, while Sign only outputs S below the order.
VerifyReducesS ==
  /\ signed.valid => BelowOrder(sig.S)
  /\ (last.op = "Verify" /\ last.ok) =>
       \A S \in SVariants(sig.S) :
         BigMod(S, curveParams.Order) = BigMod(sig.S, curveParams.Order)
           => Verify([sig EXCEPT !.S = S], last.arg, pub, hFunc).ok

VerifyReducesSReached ==
  /\ last.op = "Verify"
  /\ last.ok
  /\ ~BelowOrder(sig.S)
  /\ pub.A # Identity
  /\ sig.R # Identity

\* the state after one of the three SetBytes
Decoded ==
  last.op \in {"PublicKey.SetBytes", "Signature.SetBytes", "PrivateKey.SetBytes"}

\* the fixed encoded sizes: 64, 96 and 128 bytes
EncodedSize(op) ==
  IF op = "PublicKey.SetBytes" THEN 64
  ELSE IF op = "Signature.SetBytes" THEN 96
  ELSE 128

\* the structure the last SetBytes decoded into
Receiver(op) ==
  IF op = "PublicKey.SetBytes" THEN unMarshalPubKey
  ELSE IF op = "Signature.SetBytes" THEN unMarshalSignature
  ELSE unMarshalPrivKey

\* C3: SetBytes of the encoding Bytes gives of a key New made or a signature
\* Sign made succeeds and gives the value back field for field: the point A
\* of a PublicKey, R and the 32 bytes of S of a Signature, and pubKey,
\* scalar and randSrc of a PrivateKey.
DecodeOfEncoding ==
  /\ (last.op = "PublicKey.SetBytes" /\ last.arg = PublicKeyBytes(pub)) =>
       /\ last.err = nil
       /\ unMarshalPubKey.A = pub.A
  /\ (last.op = "Signature.SetBytes" /\ last.arg = SignatureBytes(sig)) =>
       /\ last.err = nil
       /\ unMarshalSignature.R = sig.R
       /\ unMarshalSignature.S = sig.S
  /\ (last.op = "PrivateKey.SetBytes" /\ last.arg = PrivateKeyBytes(priv)) =>
       /\ last.err = nil
       /\ unMarshalPrivKey.pubKey = priv.pubKey
       /\ unMarshalPrivKey.scalar = priv.scalar
       /\ unMarshalPrivKey.randSrc = priv.randSrc

DecodeOfEncodingReached ==
  /\ last.op = "PrivateKey.SetBytes"
  /\ last.arg = PrivateKeyBytes(priv)
  /\ last.before # PrivateKeyZero
  /\ last.before # priv
  /\ unMarshalPrivKey = priv
  /\ priv.randSrc # Zeros(32)

\* C5: SetBytes of a buffer shorter than the structure's fixed size (64, 96,
\* 128 bytes), the empty buffer included, fails with the short-buffer error
\* and reports 0 bytes read, whatever the buffer holds.
ShortBufferRejected ==
  (Decoded /\ Len(last.arg) < EncodedSize(last.op)) =>
    (last.err = ErrShortBuffer /\ last.n = 0)

ShortBufferReached ==
  /\ last.op = "PrivateKey.SetBytes"
  /\ Len(last.arg) = 127
  /\ last.err = ErrShortBuffer

\* C6: a SetBytes that succeeds reports as read the structure's fixed encoded
\* size: 64 for PublicKey, 96 for Signature and 128 for PrivateKey.
SuccessReportsSize ==
  (Decoded /\ last.err = nil) => last.n = EncodedSize(last.op)

\* C9: a SetBytes that fails, with the short-buffer error or the not-on-curve
\* error, leaves every field of its receiver as it was before the call.
FailedDecodeKeepsReceiver ==
  (Decoded /\ last.err # nil) => Receiver(last.op) = last.before

====
